---- MODULE Spec2Model ----
(***************************************************************************)
(* The IBC lifecycle handlers of x/wasm/internal/keeper/relay.go:          *)
(* OnOpenChannel, OnConnectChannel, OnCloseChannel, OnRecvPacket,          *)
(* OnAckPacket and OnTimeoutPacket.  One handler call is a sequence of     *)
(* steps (resolve, budget, VM call, gas charge, classification, event      *)
(* emission, dispatch, return); the host runs one call at a time inside    *)
(* one transaction context (gas meter, event manager).                     *)
(***************************************************************************)
EXTENDS Integers, Sequences, FiniteSets, TLC

(* ---------------------------- bounds ----------------------------------- *)

\* handler calls the host makes within one transaction context
MaxCalls == 2

\* gas limit of the transaction's gas meter
GasLimit == 1

\* largest gas amount a VM call reports
MaxGasReport == 1

(* ---------------------------- data ------------------------------------- *)

Handlers ==
  {"OnOpenChannel", "OnConnectChannel", "OnCloseChannel",
   "OnRecvPacket", "OnAckPacket", "OnTimeoutPacket"}

\* the five handlers that emit events and dispatch messages
SideEffectHandlers == Handlers \ {"OnOpenChannel"}

\* addresses the host may call a handler for; "cx" has no contract instance
Addrs == {"c1", "c2", "cx"}

\* the contract store read by contractInstance
ContractStore ==
  [c1 |-> [IBCPortID |-> "wasm.c1", CodeHash |-> "h1", Store |-> "store.c1"],
   c2 |-> [IBCPortID |-> "wasm.c2", CodeHash |-> "h2", Store |-> "store.c2"]]

Known == DOMAIN ContractStore

\* the protocol payload a handler receives
PayloadsOf(h) ==
  IF h \in {"OnOpenChannel", "OnConnectChannel", "OnCloseChannel"}
    THEN {"channelA", "channelB"}
    ELSE IF h = "OnAckPacket"
      THEN {"ackA", "ackB"}
      ELSE {"packet1", "packet2"}

\* the wasmer entry point each handler calls
EntryPoint(h) ==
  CASE h = "OnOpenChannel"    -> "IBCChannelOpen"
    [] h = "OnConnectChannel" -> "IBCChannelConnect"
    [] h = "OnCloseChannel"   -> "IBCChannelClose"
    [] h = "OnRecvPacket"     -> "IBCPacketReceive"
    [] h = "OnAckPacket"      -> "IBCPacketAck"
    [] h = "OnTimeoutPacket"  -> "IBCPacketTimeout"

\* what a VM call can return
AttrLists == {<<>>, <<"action", "amount">>}
MsgLists  == {<<>>, <<"m1", "m2">>}
AckBytes  == {<<>>, <<1>>, <<0, 255>>}
GasReports == 0 .. MaxGasReport
VMErrors  == {"trap", "out of gas"}

NoErr == [kind |-> "nil", msg |-> "", contract |-> "-", event |-> "-"]
NoRes == [Attributes |-> <<>>, Messages |-> <<>>, Acknowledgement |-> <<>>]
NoInfo == [IBCPortID |-> "-", CodeHash |-> "-", Store |-> "-"]
NoCall == [entry |-> "-", codeHash |-> "-", env |-> "-", payload |-> "-",
           store |-> "-", gasLimit |-> 0]

\* IBCChannelOpen returns (gasUsed, err) only; IBCPacketReceive returns a
\* result with an acknowledgement; the other four a basic result
ResultsOf(h) ==
  IF h = "OnOpenChannel" THEN {NoRes}
  ELSE IF h = "OnRecvPacket"
    THEN [Attributes : AttrLists, Messages : MsgLists, Acknowledgement : AckBytes]
    ELSE [Attributes : AttrLists, Messages : MsgLists, Acknowledgement : {<<>>}]

\* errors: a registered kind, a description, and the annotations it carries
Err(kind, msg) == [kind |-> kind, msg |-> msg, contract |-> "-", event |-> "-"]

\* variant: the execution error hides the VM's message
WrapExecuteFailedOpaque(vmMsg) == Err("ErrExecuteFailed", "")

\* sdkerrors.Wrap(types.ErrExecuteFailed, execErr.Error())
WrapExecuteFailed(vmMsg) == Err("ErrExecuteFailed", vmMsg)

\* the error contractInstance returns for an address without instance; the
\* resolver is told the address, not the lifecycle event
ErrNotFound(addr) ==
  [kind |-> "ErrNotFound", msg |-> "contract", contract |-> addr,
   event |-> "-"]

\* the errors messenger.Dispatch can return; the dispatcher is told the
\* address and the port, not the lifecycle event
DispatchErrs(addr) ==
  {[kind |-> "ErrDispatch", msg |-> "m1 failed", contract |-> addr,
    event |-> "-"]}

(* ---------------------------- state ------------------------------------ *)

VARIABLES
  pc,            \* position of the running handler call
  calls,         \* handler calls made in this transaction context
  handler,       \* the handler being run
  contractAddr,  \* its contractAddr argument
  payload,       \* its channel / packet / acknowledgement argument
  contractInfo,  \* contractInfo, codeInfo and prefixStore of contractInstance
  gas,           \* gas := gasForContract(ctx)
  vmCall,        \* the arguments of the wasmer call
  res,           \* res of the wasmer call
  gasUsed,       \* gasUsed of the wasmer call
  execErr,       \* execErr of the wasmer call ("" is nil)
  retAck,        \* the []byte OnRecvPacket returns
  retErr,        \* the error the handler returns
  trace,         \* collaborators called so far by this handler call
  gasConsumed,   \* ctx.GasMeter(): gas consumed
  eventLog,      \* ctx.EventManager(): events emitted
  dispatchLog,   \* invocations of k.messenger.Dispatch: the arguments and
                 \* the address the producing VM call ran for
  dispErr,       \* the error k.messenger.Dispatch returned to this call
  gas0,          \* gasConsumed when the call began
  ev0,           \* Len(eventLog) when the call began
  disp0,         \* Len(dispatchLog) when the call began
  vmGasReported  \* sum of the gasUsed the VM calls of this transaction reported

callVars == <<handler, contractAddr, payload, contractInfo, gas, vmCall, res,
              gasUsed, execErr, retAck, retErr, trace, gas0, ev0, disp0,
              dispErr>>
ctxVars  == <<gasConsumed, eventLog, dispatchLog>>
vars     == <<pc, calls, callVars, ctxVars, vmGasReported>>

IdleCall ==
  /\ handler = "-"
  /\ contractAddr = "-"
  /\ payload = "-"
  /\ contractInfo = NoInfo
  /\ gas = 0
  /\ vmCall = NoCall
  /\ res = NoRes
  /\ gasUsed = 0
  /\ execErr = ""
  /\ retAck = <<>>
  /\ retErr = NoErr
  /\ trace = <<>>
  /\ gas0 = 0
  /\ ev0 = 0
  /\ disp0 = 0
  /\ dispErr = NoErr

Init ==
  /\ pc = "idle"
  /\ calls = 0
  /\ IdleCall
  /\ gasConsumed = 0
  /\ eventLog = <<>>
  /\ dispatchLog = <<>>
  /\ vmGasReported = 0

(* ------------------- collaborators of the handlers --------------------- *)

\* k.contractInstance(ctx, contractAddr): found or not
contractInstance(addr) ==
  IF addr \in Known
    THEN [err |-> NoErr, info |-> ContractStore[addr]]
    ELSE [err |-> ErrNotFound(addr), info |-> NoInfo]

\* types.NewEnv(ctx, contractAddr)
NewEnv(addr) == addr

\* gasForContract(ctx): the remaining allowance of the gas meter
gasForContract(consumed) ==
  IF consumed >= GasLimit THEN 0 ELSE GasLimit - consumed

\* consumeGas(ctx, gasUsed): the meter's consumed gas after the charge
consumeGas(consumed, used) == consumed + used

\* types.ParseEvents(res.Attributes, contractAddr)
ParseEvents(attributes, addr) ==
  << [contract |-> addr, attributes |-> attributes] >>

(* ---------------------------- steps ------------------------------------ *)

\* the host protocol layer calls handler h for addr with payload p
Call(h, addr, p) ==
  /\ pc = "idle"
  /\ calls < MaxCalls
  /\ pc' = "called"
  /\ calls' = calls + 1
  /\ handler' = h
  /\ contractAddr' = addr
  /\ payload' = p
  /\ gas0' = gasConsumed
  /\ ev0' = Len(eventLog)
  /\ disp0' = Len(dispatchLog)
  /\ UNCHANGED <<vmGasReported, dispErr, contractInfo, gas, vmCall, res,
                 gasUsed, execErr, retAck, retErr, trace, ctxVars>>

\* variant: the resolution error is not checked
ResolveIgnoringError ==
  /\ pc = "called"
  /\ contractInfo' = contractInstance(contractAddr).info
  /\ pc' = "resolved"
  /\ trace' = Append(trace, "contractInstance")
  /\ UNCHANGED <<vmGasReported, dispErr, calls, handler, contractAddr,
                 payload, gas, vmCall, res, gasUsed, execErr, retAck, retErr,
                 gas0, ev0, disp0, ctxVars>>

\* contractInfo, codeInfo, prefixStore, err := k.contractInstance(...)
\* if err != nil { return err }
Resolve ==
  /\ pc = "called"
  /\ LET r == contractInstance(contractAddr) IN
       /\ contractInfo' = r.info
       /\ retErr' = r.err
       /\ pc' = IF r.err = NoErr THEN "resolved" ELSE "done"
  /\ trace' = Append(trace, "contractInstance")
  /\ UNCHANGED <<vmGasReported, dispErr, calls, handler, contractAddr,
                 payload, gas, vmCall, res, gasUsed, execErr, retAck, gas0,
                 ev0, disp0, ctxVars>>

\* env := types.NewEnv(ctx, contractAddr); gas := gasForContract(ctx)
Budget ==
  /\ pc = "resolved"
  /\ gas' = gasForContract(gasConsumed)
  /\ pc' = "budgeted"
  /\ trace' = Append(trace, "gasForContract")
  /\ UNCHANGED <<vmGasReported, dispErr, calls, handler, contractAddr,
                 payload, contractInfo, vmCall, res, gasUsed, execErr, retAck,
                 retErr, gas0, ev0, disp0, ctxVars>>

\* variant: the VM is handed the meter's whole limit instead of the budget
VMArgumentsWholeLimit ==
  [entry    |-> EntryPoint(handler),
   codeHash |-> contractInfo.CodeHash,
   env      |-> NewEnv(contractAddr),
   payload  |-> payload,
   store    |-> contractInfo.Store,
   gasLimit |-> GasLimit]

\* variant: the timeout handler calls the acknowledgement entry point
VMArgumentsTimeoutAsAck ==
  [entry    |-> IF handler = "OnTimeoutPacket" THEN "IBCPacketAck"
                                               ELSE EntryPoint(handler),
   codeHash |-> contractInfo.CodeHash,
   env      |-> NewEnv(contractAddr),
   payload  |-> payload,
   store    |-> contractInfo.Store,
   gasLimit |-> gas]

\* the arguments the handler hands to the wasmer entry point
VMArguments ==
  [entry    |-> EntryPoint(handler),
   codeHash |-> contractInfo.CodeHash,
   env      |-> NewEnv(contractAddr),
   payload  |-> payload,
   store    |-> contractInfo.Store,
   gasLimit |-> gas]

\* variant: with an empty budget the VM is not entered and the call is
\* treated as out of gas
InvokeOnlyWithBudget ==
  /\ pc = "budgeted"
  /\ IF gas = 0
       THEN /\ vmCall' = vmCall
            /\ res' = res
            /\ gasUsed' = 0
            /\ execErr' = "out of gas"
            /\ trace' = trace
       ELSE /\ vmCall' = VMArguments
            /\ \E r \in ResultsOf(handler), g \in GasReports,
                  e \in VMErrors \cup {""} :
                 /\ res' = r
                 /\ gasUsed' = g
                 /\ execErr' = e
            /\ trace' = Append(trace, EntryPoint(handler))
  /\ pc' = "invoked"
  /\ vmGasReported' = vmGasReported + gasUsed'
  /\ UNCHANGED <<dispErr, calls, handler, contractAddr, payload, contractInfo,
                 gas, retAck, retErr, gas0, ev0, disp0, ctxVars>>

\* res, gasUsed, execErr := k.wasmer.IBC...(codeInfo.CodeHash, env, payload,
\*                            prefixStore, cosmwasmAPI, querier, meter, gas)
Invoke ==
  /\ pc = "budgeted"
  /\ vmCall' = VMArguments
  /\ \E r \in ResultsOf(handler), g \in GasReports, e \in VMErrors \cup {""} :
       /\ res' = r
       /\ gasUsed' = g
       /\ execErr' = e
  /\ pc' = "invoked"
  /\ trace' = Append(trace, EntryPoint(handler))
  /\ vmGasReported' = vmGasReported + gasUsed'
  /\ UNCHANGED <<dispErr, calls, handler, contractAddr, payload, contractInfo,
                 gas, retAck, retErr, gas0, ev0, disp0, ctxVars>>

\* variant: the charge is skipped when the VM reported an error
ChargeOnSuccessOnly ==
  /\ pc = "invoked"
  /\ gasConsumed' = IF execErr # "" THEN gasConsumed
                                     ELSE consumeGas(gasConsumed, gasUsed)
  /\ pc' = "charged"
  /\ trace' = Append(trace, "consumeGas")
  /\ UNCHANGED <<vmGasReported, dispErr, calls, handler, contractAddr,
                 payload, contractInfo, gas, vmCall, res, gasUsed, execErr,
                 retAck, retErr, gas0, ev0, disp0, eventLog, dispatchLog>>

\* variant: the budget handed to the VM is charged, not the reported amount
ChargeBudget ==
  /\ pc = "invoked"
  /\ gasConsumed' = consumeGas(gasConsumed, gas)
  /\ pc' = "charged"
  /\ trace' = Append(trace, "consumeGas")
  /\ UNCHANGED <<vmGasReported, dispErr, calls, handler, contractAddr,
                 payload, contractInfo, gas, vmCall, res, gasUsed, execErr,
                 retAck, retErr, gas0, ev0, disp0, eventLog, dispatchLog>>

\* consumeGas(ctx, gasUsed)
Charge ==
  /\ pc = "invoked"
  /\ gasConsumed' = consumeGas(gasConsumed, gasUsed)
  /\ pc' = "charged"
  /\ trace' = Append(trace, "consumeGas")
  /\ UNCHANGED <<vmGasReported, dispErr, calls, handler, contractAddr,
                 payload, contractInfo, gas, vmCall, res, gasUsed, execErr,
                 retAck, retErr, gas0, ev0, disp0, eventLog, dispatchLog>>

\* variant: execErr is not checked
ClassifyIgnoringError(next) ==
  /\ pc = "charged"
  /\ retErr' = retErr
  /\ pc' = next
  /\ UNCHANGED <<vmGasReported, dispErr, calls, handler, contractAddr,
                 payload, contractInfo, gas, vmCall, res, gasUsed, execErr,
                 retAck, trace, gas0, ev0, disp0, ctxVars>>

\* variant: execErr is checked right after the VM call, before the charge
ClassifyBeforeCharge(next) ==
  /\ pc = "invoked"
  /\ IF execErr # ""
       THEN /\ retErr' = WrapExecuteFailed(execErr)
            /\ pc' = "done"
       ELSE /\ retErr' = retErr
            /\ pc' = "charged"
  /\ UNCHANGED <<vmGasReported, dispErr, calls, handler, contractAddr,
                 payload, contractInfo, gas, vmCall, res, gasUsed, execErr,
                 retAck, trace, gas0, ev0, disp0, ctxVars>>

\* variant: gas exhaustion in the VM is returned as a kind of its own
ClassifyDistinguishingOutOfGas(next) ==
  /\ pc = "charged"
  /\ IF execErr # ""
       THEN /\ retErr' = IF execErr = "out of gas"
                           THEN Err("ErrOutOfGas", execErr)
                           ELSE WrapExecuteFailed(execErr)
            /\ pc' = "done"
       ELSE /\ retErr' = retErr
            /\ pc' = next
  /\ UNCHANGED <<vmGasReported, dispErr, calls, handler, contractAddr,
                 payload, contractInfo, gas, vmCall, res, gasUsed, execErr,
                 retAck, trace, gas0, ev0, disp0, ctxVars>>

\* variant: a call whose VM ran out of gas is never classified
ClassifyExceptOutOfGas(next) ==
  /\ pc = "charged"
  /\ execErr # "out of gas"
  /\ IF execErr # ""
       THEN /\ retErr' = WrapExecuteFailed(execErr)
            /\ pc' = "done"
       ELSE /\ retErr' = retErr
            /\ pc' = next
  /\ UNCHANGED <<vmGasReported, dispErr, calls, handler, contractAddr,
                 payload, contractInfo, gas, vmCall, res, gasUsed, execErr,
                 retAck, trace, gas0, ev0, disp0, ctxVars>>

\* if execErr != nil { return sdkerrors.Wrap(types.ErrExecuteFailed, ...) }
\* after a successful VM call OnOpenChannel returns nil (next = "done"), the
\* other handlers go on to their events and messages (next = "emit")
Classify(next) ==
  /\ pc = "charged"
  /\ IF execErr # ""
       THEN /\ retErr' = WrapExecuteFailed(execErr)
            /\ pc' = "done"
       ELSE /\ retErr' = retErr
            /\ pc' = next
  /\ UNCHANGED <<vmGasReported, dispErr, calls, handler, contractAddr,
                 payload, contractInfo, gas, vmCall, res, gasUsed, execErr,
                 retAck, trace, gas0, ev0, disp0, ctxVars>>

\* variant: nothing is emitted for a contract that reported no attribute
EmitNonEmptyOnly ==
  /\ pc = "emit"
  /\ IF res.Attributes = <<>>
       THEN /\ eventLog' = eventLog
            /\ trace' = trace
       ELSE /\ eventLog' = eventLog \o ParseEvents(res.Attributes, contractAddr)
            /\ trace' = Append(trace, "EmitEvents")
  /\ pc' = "dispatch"
  /\ UNCHANGED <<vmGasReported, dispErr, calls, handler, contractAddr,
                 payload, contractInfo, gas, vmCall, res, gasUsed, execErr,
                 retAck, retErr, gas0, ev0, disp0, gasConsumed, dispatchLog>>

\* events := types.ParseEvents(res.Attributes, contractAddr)
\* ctx.EventManager().EmitEvents(events)
Emit ==
  /\ pc = "emit"
  /\ eventLog' = eventLog \o ParseEvents(res.Attributes, contractAddr)
  /\ pc' = "dispatch"
  /\ trace' = Append(trace, "EmitEvents")
  /\ UNCHANGED <<vmGasReported, dispErr, calls, handler, contractAddr,
                 payload, contractInfo, gas, vmCall, res, gasUsed, execErr,
                 retAck, retErr, gas0, ev0, disp0, gasConsumed, dispatchLog>>

\* variant: every dispatch goes out under the port of contract c1
DispatchArgumentsSharedPort ==
  [contract |-> contractAddr,
   port     |-> ContractStore["c1"].IBCPortID,
   messages |-> res.Messages]

\* the invocation k.messenger.Dispatch(ctx, contractAddr,
\*                                     contractInfo.IBCPortID, res.Messages...)
DispatchArguments ==
  [contract |-> contractAddr,
   port     |-> contractInfo.IBCPortID,
   messages |-> res.Messages]

\* variant: only a one-byte acknowledgement is passed on
ReturnedAckValidated(err) ==
  IF handler = "OnRecvPacket" /\ err = NoErr /\ Len(res.Acknowledgement) = 1
    THEN res.Acknowledgement
    ELSE <<>>

\* variant: the acknowledgement is returned next to a dispatch error
ReturnedAckAlways(err) ==
  IF handler = "OnRecvPacket"
    THEN res.Acknowledgement
    ELSE <<>>

\* what the handler returns after a dispatch that returned err
\* OnRecvPacket: return nil, err / return res.Acknowledgement, nil
ReturnedAck(err) ==
  IF handler = "OnRecvPacket" /\ err = NoErr
    THEN res.Acknowledgement
    ELSE <<>>

\* variant: a failed dispatch takes the events of this call back
DispatchRollingBack ==
  /\ pc = "dispatch"
  /\ \E err \in DispatchErrs(contractAddr) \cup {NoErr} :
       /\ dispatchLog' = Append(dispatchLog,
                                [args |-> DispatchArguments,
                                 producer |-> vmCall.env])
       /\ dispErr' = err
       /\ retErr' = err
       /\ retAck' = ReturnedAck(err)
       /\ eventLog' = IF err = NoErr THEN eventLog
                                      ELSE SubSeq(eventLog, 1, ev0)
  /\ pc' = "done"
  /\ trace' = Append(trace, "Dispatch")
  /\ UNCHANGED <<vmGasReported, calls, handler, contractAddr, payload,
                 contractInfo, gas, vmCall, res, gasUsed, execErr, gas0, ev0,
                 disp0, gasConsumed>>

\* variant: a failed dispatch is tried once more before giving up
DispatchRetrying ==
  /\ pc = "dispatch"
  /\ \E err \in DispatchErrs(contractAddr) \cup {NoErr} :
       /\ dispatchLog' = Append(dispatchLog,
                                [args |-> DispatchArguments,
                                 producer |-> vmCall.env])
       /\ dispErr' = err
       /\ IF err # NoErr /\ trace[Len(trace)] # "Dispatch"
            THEN /\ retErr' = retErr
                 /\ retAck' = retAck
                 /\ pc' = "dispatch"
            ELSE /\ retErr' = err
                 /\ retAck' = ReturnedAck(err)
                 /\ pc' = "done"
  /\ trace' = Append(trace, "Dispatch")
  /\ UNCHANGED <<vmGasReported, calls, handler, contractAddr, payload,
                 contractInfo, gas, vmCall, res, gasUsed, execErr, gas0, ev0,
                 disp0, gasConsumed, eventLog>>

\* if err := k.messenger.Dispatch(...); err != nil { return err }
\* return nil
Dispatch ==
  /\ pc = "dispatch"
  /\ \E err \in DispatchErrs(contractAddr) \cup {NoErr} :
       /\ dispatchLog' = Append(dispatchLog,
                                [args |-> DispatchArguments,
                                 producer |-> vmCall.env])
       /\ dispErr' = err
       /\ retErr' = err
       /\ retAck' = ReturnedAck(err)
  /\ pc' = "done"
  /\ trace' = Append(trace, "Dispatch")
  /\ UNCHANGED <<vmGasReported, calls, handler, contractAddr, payload,
                 contractInfo, gas, vmCall, res, gasUsed, execErr, gas0, ev0,
                 disp0, gasConsumed, eventLog>>

(* ---------------------------- handlers --------------------------------- *)

\* variant: channel open integrates side effects like the other handlers
OnOpenChannelWithSideEffects ==
  /\ handler = "OnOpenChannel"
  /\ (Resolve \/ Budget \/ Invoke \/ Charge \/ Classify("emit") \/ Emit
        \/ Dispatch)

OnOpenChannel ==
  /\ handler = "OnOpenChannel"
  /\ (Resolve \/ Budget \/ Invoke \/ Charge \/ Classify("done"))

OnConnectChannel ==
  /\ handler = "OnConnectChannel"
  /\ (Resolve \/ Budget \/ Invoke \/ Charge \/ Classify("emit") \/ Emit
        \/ Dispatch)

OnCloseChannel ==
  /\ handler = "OnCloseChannel"
  /\ (Resolve \/ Budget \/ Invoke \/ Charge \/ Classify("emit") \/ Emit
        \/ Dispatch)

OnRecvPacket ==
  /\ handler = "OnRecvPacket"
  /\ (Resolve \/ Budget \/ Invoke \/ Charge \/ Classify("emit") \/ Emit
        \/ Dispatch)

OnAckPacket ==
  /\ handler = "OnAckPacket"
  /\ (Resolve \/ Budget \/ Invoke \/ Charge \/ Classify("emit") \/ Emit
        \/ Dispatch)

OnTimeoutPacket ==
  /\ handler = "OnTimeoutPacket"
  /\ (Resolve \/ Budget \/ Invoke \/ Charge \/ Classify("emit") \/ Emit
        \/ Dispatch)

\* the host protocol layer calls a handler
HostCall ==
  \E h \in Handlers, addr \in Addrs :
    \E p \in PayloadsOf(h) : Call(h, addr, p)

\* the handler has returned; the host proceeds to its next event
Return ==
  /\ pc = "done"
  /\ pc' = "idle"
  /\ handler' = "-"
  /\ contractAddr' = "-"
  /\ payload' = "-"
  /\ contractInfo' = NoInfo
  /\ gas' = 0
  /\ vmCall' = NoCall
  /\ res' = NoRes
  /\ gasUsed' = 0
  /\ execErr' = ""
  /\ retAck' = <<>>
  /\ retErr' = NoErr
  /\ trace' = <<>>
  /\ gas0' = 0
  /\ ev0' = 0
  /\ disp0' = 0
  /\ dispErr' = NoErr
  /\ UNCHANGED <<vmGasReported, dispErr, calls, ctxVars>>

\* the host starts the next transaction: fresh gas meter and event manager
NewTx ==
  /\ pc = "idle"
  /\ calls > 0
  /\ calls' = 0
  /\ gasConsumed' = 0
  /\ eventLog' = <<>>
  /\ dispatchLog' = <<>>
  /\ vmGasReported' = 0
  /\ UNCHANGED <<pc, callVars>>

Next ==
  \/ HostCall
  \/ OnOpenChannel
  \/ OnConnectChannel
  \/ OnCloseChannel
  \/ OnRecvPacket
  \/ OnAckPacket
  \/ OnTimeoutPacket
  \/ Return
  \/ NewTx

Spec == Init /\ [][Next]_vars

\* a step of the running handler call
HandlerStep ==
  \/ OnOpenChannel
  \/ OnConnectChannel
  \/ OnCloseChannel
  \/ OnRecvPacket
  \/ OnAckPacket
  \/ OnTimeoutPacket

\* a handler is synchronous straight-line code: once called it keeps taking
\* its next step, each collaborator call returning
FairSpec == Spec /\ WF_vars(HandlerStep)

(* ---------------------------- properties ------------------------------- *)

\* the running call has made the collaborator call named step
Ran(step) == \E i \in DOMAIN trace : trace[i] = step

\* the running call has charged the gas of its VM call
AfterCharge == Ran("consumeGas")

\* the events and dispatches the running call has added to the logs
EmittedByCall ==
  IF pc = "idle" THEN <<>> ELSE SubSeq(eventLog, ev0 + 1, Len(eventLog))
DispatchedByCall ==
  IF pc = "idle" THEN <<>> ELSE SubSeq(dispatchLog, disp0 + 1, Len(dispatchLog))

\* C1: in every handler, once the VM call has reported an execution error
\* the call emits no event and dispatches no message, whatever result the VM
\* returned alongside the error.
C1_NoEffectsOnVMError ==
  execErr # "" =>
    /\ EmittedByCall = <<>>
    /\ DispatchedByCall = <<>>
    /\ ~Ran("EmitEvents")
    /\ ~Ran("Dispatch")
    /\ pc \in {"invoked", "charged", "done"}

C1_Witness ==
  /\ pc = "done"
  /\ handler = "OnRecvPacket"
  /\ execErr = "out of gas"
  /\ res.Attributes # <<>>
  /\ res.Messages # <<>>
  /\ res.Acknowledgement # <<>>

\* C2: in every handler and for either VM outcome, from the charge on the
\* meter's consumed gas is what it was when the call began plus exactly the
\* gasUsed the VM reported; before the charge it is unchanged.
C2_GasChargedExactly ==
  /\ AfterCharge => gasConsumed = gas0 + gasUsed
  /\ (pc \in {"called", "resolved", "budgeted", "invoked"}) => gasConsumed = gas0
  /\ (pc = "done" /\ contractAddr \in Known) => AfterCharge

C2_Witness ==
  /\ pc = "done"
  /\ execErr # ""
  /\ gasUsed > 0
  /\ gas0 > 0
  /\ gasConsumed = gas0 + gasUsed

\* C3: when the address has no contract instance the handler returns the
\* resolver's error at once: no VM call, no gas charged, no event, no dispatch.
C3_ResolutionFailureHasNoEffect ==
  (pc \notin {"idle", "called"} /\ contractAddr \notin Known) =>
    /\ pc = "done"
    /\ retErr = contractInstance(contractAddr).err
    /\ retErr # NoErr
    /\ retAck = <<>>
    /\ trace = <<"contractInstance">>
    /\ vmCall = NoCall
    /\ gasConsumed = gas0
    /\ EmittedByCall = <<>>
    /\ DispatchedByCall = <<>>

C3_Witness ==
  /\ pc = "done"
  /\ contractAddr = "cx"
  /\ handler = "OnRecvPacket"
  /\ gas0 > 0
  /\ eventLog # <<>>

\* C4: every dispatch ever made goes out under the address its handler was
\* called for, which is the address the producing VM call ran for, and under
\* the port stored for that same contract; a call dispatches at most once.
C4_ScopedDispatch ==
  /\ \A i \in DOMAIN dispatchLog :
       /\ dispatchLog[i].args.contract \in Known
       /\ dispatchLog[i].args.contract = dispatchLog[i].producer
       /\ dispatchLog[i].args.port
            = ContractStore[dispatchLog[i].args.contract].IBCPortID
  /\ \A i \in DOMAIN DispatchedByCall :
       /\ DispatchedByCall[i].args.contract = contractAddr
       /\ DispatchedByCall[i].args.messages = res.Messages
  /\ Len(DispatchedByCall) <= 1

C4_Witness ==
  /\ Len(dispatchLog) = 2
  /\ dispatchLog[1].args.contract = "c1"
  /\ dispatchLog[2].args.contract = "c2"
  /\ dispatchLog[1].args.messages # <<>>
  /\ dispatchLog[2].args.messages # <<>>
  /\ dispatchLog[2].args.port = "wasm.c2"

\* C5: OnOpenChannel never emits an event and never dispatches a message, on
\* any path; it only resolves, calls the VM and charges the gas.
C5_OpenHasNoSideEffects ==
  handler = "OnOpenChannel" =>
    /\ EmittedByCall = <<>>
    /\ DispatchedByCall = <<>>
    /\ ~Ran("EmitEvents")
    /\ ~Ran("Dispatch")
    /\ pc \notin {"emit", "dispatch"}
    /\ retAck = <<>>

C5_Witness ==
  /\ pc = "done"
  /\ handler = "OnOpenChannel"
  /\ execErr = ""
  /\ retErr = NoErr
  /\ Ran("IBCChannelOpen")
  /\ gasConsumed > gas0

\* C6: a packet receive that returns no error returns exactly the
\* acknowledgement bytes the VM reported, the empty acknowledgement included.
C6_RecvReturnsAckVerbatim ==
  (pc = "done" /\ handler = "OnRecvPacket" /\ retErr = NoErr) =>
    retAck = res.Acknowledgement

C6_Witness ==
  /\ pc = "done"
  /\ handler = "OnRecvPacket"
  /\ retErr = NoErr
  /\ Ran("Dispatch")
  /\ retAck = <<0, 255>>

\* C7: a packet receive that returns an error returns no acknowledgement,
\* also when the VM had produced one before the dispatch failed.
C7_FailedRecvReturnsNoAck ==
  (pc = "done" /\ handler = "OnRecvPacket" /\ retErr # NoErr) =>
    retAck = <<>>

C7_Witness ==
  /\ pc = "done"
  /\ handler = "OnRecvPacket"
  /\ retErr \in DispatchErrs(contractAddr)
  /\ res.Acknowledgement # <<>>
  /\ retAck = <<>>

\* C8 as stated: the gas a handler call charges never exceeds the budget
\* computed for the call, whatever amount the VM reports.
C8_ChargeWithinBudget ==
  AfterCharge => gasConsumed - gas0 <= gas

\* C8 amended: the VM is handed the budget as its gas limit, and a call
\* whose VM reports no more than the limit it was handed charges no more
\* than the budget; the handler does not clamp the reported amount.
C8_ChargeWithinBudgetIfVMWithinLimit ==
  AfterCharge =>
    (gasUsed <= vmCall.gasLimit => gasConsumed - gas0 <= gas)

C8_Witness ==
  /\ pc = "done"
  /\ AfterCharge
  /\ gas0 = 0
  /\ gasUsed = gas
  /\ gasUsed > 0
  /\ gasConsumed - gas0 = gas

\* C9: in the five side-effect handlers the events of a successful VM call
\* are emitted before its messages are dispatched; a dispatch failure is
\* returned to the caller and the events this call emitted stay in the log.
C9_EventsBeforeDispatchNoRollback ==
  /\ pc = "dispatch" =>
       /\ EmittedByCall = ParseEvents(res.Attributes, contractAddr)
       /\ DispatchedByCall = <<>>
  /\ Ran("Dispatch") =>
       /\ handler \in SideEffectHandlers
       /\ Len(trace) >= 2
       /\ trace[Len(trace)] = "Dispatch"
       /\ trace[Len(trace) - 1] = "EmitEvents"
       /\ Len(DispatchedByCall) = 1
       /\ retErr = dispErr
       /\ EmittedByCall = ParseEvents(res.Attributes, contractAddr)

C9_Witness ==
  /\ pc = "done"
  /\ handler = "OnCloseChannel"
  /\ Ran("Dispatch")
  /\ retErr \in DispatchErrs(contractAddr)
  /\ res.Attributes # <<>>
  /\ Len(eventLog) = ev0 + 1
  /\ eventLog[Len(eventLog)].contract = contractAddr

\* C10 as stated: every error a handler returns is annotated with the
\* contract address and with the lifecycle event handled, and carries no
\* VM-internal detail.
C10_ErrorsAnnotated ==
  (pc = "done" /\ retErr # NoErr) =>
    /\ retErr.contract = contractAddr
    /\ retErr.event = handler
    /\ retErr.msg \notin VMErrors

\* C10 amended: an error a handler returns is the resolver's error or the
\* dispatcher's error, returned unchanged, or the execution-failed kind
\* carrying the VM's own error message; the handler adds neither the
\* contract address nor the event kind.
C10_ErrorsAsReceivedOrWrapped ==
  (pc = "done" /\ retErr # NoErr) =>
    \/ /\ contractAddr \notin Known
       /\ retErr = contractInstance(contractAddr).err
    \/ /\ execErr \in VMErrors
       /\ retErr = [kind |-> "ErrExecuteFailed", msg |-> execErr,
                    contract |-> "-", event |-> "-"]
    \/ /\ Ran("Dispatch")
       /\ execErr = ""
       /\ retErr = dispErr

C10_Witness ==
  /\ pc = "done"
  /\ handler = "OnAckPacket"
  /\ execErr = "trap"
  /\ retErr.kind = "ErrExecuteFailed"
  /\ retErr.msg = "trap"

\* how often the running call has made the collaborator call named step
Count(step) == Cardinality({i \in DOMAIN trace : trace[i] = step})

\* the wasmer entry points
EntryPoints == {EntryPoint(h) : h \in Handlers}

\* how many wasmer entry points the running call has executed
VMCallCount == Cardinality({i \in DOMAIN trace : trace[i] \in EntryPoints})

\* C11 as stated: every handler call resolves exactly one contract instance
\* and executes exactly one VM entry point.
C11_OneResolveOneVMCall ==
  pc = "done" =>
    /\ Count("contractInstance") = 1
    /\ contractInfo \in {ContractStore[a] : a \in Known}
    /\ VMCallCount = 1

\* C11 amended: every handler call consults the resolver exactly once; when
\* the address resolves, the call uses that one instance and executes exactly
\* one VM entry point, and when it does not resolve it executes none.
C11_OneResolveAtMostOneVMCall ==
  /\ pc = "done" =>
       /\ Count("contractInstance") = 1
       /\ IF contractAddr \in Known
            THEN /\ contractInfo = ContractStore[contractAddr]
                 /\ VMCallCount = 1
                 /\ vmCall.codeHash = ContractStore[contractAddr].CodeHash
            ELSE /\ contractInfo = NoInfo
                 /\ VMCallCount = 0
                 /\ vmCall = NoCall
  /\ Count("contractInstance") <= 1
  /\ VMCallCount <= 1

C11_Witness ==
  /\ pc = "done"
  /\ contractAddr = "c2"
  /\ gas = 0
  /\ VMCallCount = 1
  /\ Count("contractInstance") = 1
  /\ trace[3] = "IBCPacketTimeout"

\* C12: after any sequence of handler calls within one transaction the gas
\* charged to the meter is the sum of the gasUsed reported by the VM calls
\* made so far; only between a VM call's return and its charge is that
\* call's amount still outstanding. Calls that fail resolution add nothing.
C12_CumulativeGas ==
  /\ pc = "invoked" => gasConsumed + gasUsed = vmGasReported
  /\ pc # "invoked" => gasConsumed = vmGasReported

C12_Witness ==
  /\ pc = "done"
  /\ calls = 2
  /\ gas0 = 1
  /\ execErr = "trap"
  /\ gasUsed = 1
  /\ vmGasReported = 2
  /\ Len(dispatchLog) = 1
  /\ eventLog # <<>>

\* the collaborator calls of a handler in the order of its statements; the
\* third is the handler's wasmer entry point
StepOrder(entry) ==
  <<"contractInstance", "gasForContract", entry, "consumeGas", "EmitEvents",
    "Dispatch">>

\* C13: every handler makes its collaborator calls in one fixed order:
\* resolve, budget, VM call, gas charge, and only then the outcome is
\* classified; the charge directly follows the VM call and precedes every
\* event emission, every dispatch and every return the VM outcome causes.
C13_FixedStepOrder ==
  /\ Len(trace) <= 6
  /\ \A i \in DOMAIN trace :
       IF i = 3 THEN trace[i] \in EntryPoints
                ELSE trace[i] = StepOrder("-")[i]
  /\ pc = "charged" =>
       /\ trace[Len(trace)] = "consumeGas"
       /\ trace[Len(trace) - 1] \in EntryPoints
  /\ pc \in {"emit", "dispatch"} => AfterCharge /\ execErr = ""
  /\ (pc = "done" /\ VMCallCount > 0) => AfterCharge
  /\ retErr.kind = "ErrExecuteFailed" => AfterCharge
  /\ (Ran("EmitEvents") \/ Ran("Dispatch")) => AfterCharge

C13_Witness ==
  /\ pc = "done"
  /\ handler = "OnTimeoutPacket"
  /\ trace = StepOrder("IBCPacketTimeout")
  /\ gasUsed > 0
  /\ gasConsumed = gas0 + gasUsed

\* C14: the kind of the error a handler returns depends only on the stage
\* that failed: every VM-reported error, in every handler and whatever its
\* cause, comes back as the one kind ErrExecuteFailed with the VM's message;
\* a resolution error and a dispatch error keep the kind they were received
\* with and are never turned into ErrExecuteFailed; no failure, no error.
C14_ErrorKindByStage ==
  pc = "done" =>
    /\ execErr # "" =>
         /\ retErr.kind = "ErrExecuteFailed"
         /\ retErr.msg = execErr
    /\ contractAddr \notin Known =>
         retErr.kind = contractInstance(contractAddr).err.kind
    /\ Ran("Dispatch") => retErr.kind = dispErr.kind
    /\ retErr.kind = "ErrExecuteFailed" => execErr # ""
    /\ retErr.kind = "nil" <=>
         /\ contractAddr \in Known
         /\ execErr = ""
         /\ Ran("Dispatch") => dispErr = NoErr

C14_Witness ==
  /\ pc = "done"
  /\ handler = "OnOpenChannel"
  /\ execErr = "out of gas"
  /\ retErr.kind = "ErrExecuteFailed"
  /\ retErr.msg = "out of gas"

\* C15: no handler retries: within one call the resolver is consulted at
\* most once, a VM entry point is invoked at most once, gas is charged at
\* most once and the dispatcher is invoked at most once, also after a VM
\* execution error or a dispatch failure.
C15_NoLocalRetry ==
  /\ Count("contractInstance") <= 1
  /\ Count("gasForContract") <= 1
  /\ VMCallCount <= 1
  /\ Count("consumeGas") <= 1
  /\ Count("EmitEvents") <= 1
  /\ Count("Dispatch") <= 1
  /\ Len(DispatchedByCall) = Count("Dispatch")
  /\ Len(EmittedByCall) = Count("EmitEvents")
  /\ (pc # "idle" /\ pc # "invoked") =>
       vmGasReported - gasUsed = gas0

C15_Witness ==
  /\ pc = "done"
  /\ handler = "OnAckPacket"
  /\ Count("Dispatch") = 1
  /\ retErr \in DispatchErrs(contractAddr)
  /\ Len(DispatchedByCall) = 1
  /\ res.Messages # <<>>

\* the entry-point table: lifecycle event, VM entry point, kind of payload
EntryPointTable ==
  [OnOpenChannel    |-> [entry |-> "IBCChannelOpen",
                         payloads |-> {"channelA", "channelB"}],
   OnConnectChannel |-> [entry |-> "IBCChannelConnect",
                         payloads |-> {"channelA", "channelB"}],
   OnCloseChannel   |-> [entry |-> "IBCChannelClose",
                         payloads |-> {"channelA", "channelB"}],
   OnRecvPacket     |-> [entry |-> "IBCPacketReceive",
                         payloads |-> {"packet1", "packet2"}],
   OnAckPacket      |-> [entry |-> "IBCPacketAck",
                         payloads |-> {"ackA", "ackB"}],
   OnTimeoutPacket  |-> [entry |-> "IBCPacketTimeout",
                         payloads |-> {"packet1", "packet2"}]]

\* C16: each handler invokes the VM entry point the table assigns to its
\* event and hands it the payload it was called with, unmodified, together
\* with the code hash and the store of the contract resolved for the
\* handler's address.
C16_EntryPointAndPayload ==
  VMCallCount > 0 =>
    /\ vmCall.entry = EntryPointTable[handler].entry
    /\ trace[3] = EntryPointTable[handler].entry
    /\ vmCall.payload = payload
    /\ vmCall.payload \in EntryPointTable[handler].payloads
    /\ contractAddr \in Known
    /\ vmCall.codeHash = ContractStore[contractAddr].CodeHash
    /\ vmCall.store = ContractStore[contractAddr].Store
    /\ vmCall.env = contractAddr

C16_Witness ==
  /\ pc = "done"
  /\ handler = "OnTimeoutPacket"
  /\ contractAddr = "c2"
  /\ vmCall.entry = "IBCPacketTimeout"
  /\ vmCall.payload = "packet2"
  /\ vmCall.codeHash = "h2"
  /\ vmCall.store = "store.c2"

\* C17: with every collaborator call returning, every handler call that was
\* begun completes, with success or with an error, and no call begins while
\* another is running; a VM call halted by gas exhaustion ends its handler
\* with the execution-failed error.
C17_CallsComplete ==
  /\ (pc \notin {"idle", "done"}) ~> (pc = "done")
  /\ [](pc = "done" =>
         /\ retErr = NoErr \/ retErr.kind # "nil"
         /\ execErr = "out of gas" => retErr.kind = "ErrExecuteFailed")
  /\ [][pc' = "called" => pc = "idle"]_vars
  /\ [][pc = "done" => pc' = "idle"]_vars

C17_Witness ==
  /\ pc = "done"
  /\ calls = 2
  /\ execErr = "out of gas"
  /\ gas = 0
  /\ retErr.kind = "ErrExecuteFailed"
  /\ trace[Len(trace)] = "consumeGas"

\* C18: in the five side-effect handlers a call whose VM call succeeded has,
\* when it returns, emitted exactly once, an event tagged with the handler's
\* address and holding all attributes of the result in their order, and has
\* invoked the dispatcher exactly once, with all messages of the result in
\* their order; both also for an empty list; and it returns no error exactly
\* when that dispatcher invocation returned none.
C18_OneEmissionOneDispatch ==
  (pc = "done" /\ handler \in SideEffectHandlers /\ VMCallCount = 1
     /\ execErr = "") =>
    /\ Count("EmitEvents") = 1
    /\ EmittedByCall =
         << [contract |-> contractAddr, attributes |-> res.Attributes] >>
    /\ Count("Dispatch") = 1
    /\ Len(DispatchedByCall) = 1
    /\ DispatchedByCall[1].args.messages = res.Messages
    /\ DispatchedByCall[1].args.contract = contractAddr
    /\ retErr = NoErr <=> dispErr = NoErr
    /\ retErr = dispErr

C18_Witness ==
  /\ pc = "done"
  /\ handler = "OnConnectChannel"
  /\ execErr = ""
  /\ res.Attributes = <<>>
  /\ res.Messages = <<>>
  /\ Count("EmitEvents") = 1
  /\ Count("Dispatch") = 1
  /\ retErr = NoErr
  /\ ev0 = 1
  /\ eventLog[1].attributes = <<"action", "amount">>

====
